---- MODULE Spec2Model ----
(***************************************************************************)
(* Tower of Hanoi notebook (src/lru_cache.ipynb).                          *)
(*                                                                         *)
(*  - hanoi / hanoi_count: the plain recursive functions.                  *)
(*  - the lru_cache-wrapped hanoi_count: the wrapper's lookup, the body,   *)
(*    the two re-entrant recursive calls and the insertion with eviction   *)
(*    are modelled as a call stack of frames, one step per action.         *)
(***************************************************************************)
EXTENDS Integers, Sequences, FiniteSets, TLC

\* ---------------------------------------------------------------- bounds
MaxN == 3          \* largest n_disks of a top-level call (bounded cache)
MaxCap == 3        \* largest maxsize of the bounded cache
RecLimit == 3      \* recursion limit (frames of hanoi_count) of the bounded runs
ColdMaxN == 25     \* largest n_disks of a call on the unbounded cache
ColdLimit == 25    \* recursion limit of the unbounded runs
MaxDisks == 6      \* largest n_disks given to the plain functions

VARIABLES
    cache,      \* the wrapper's entries, least recently used first
    bounded,    \* FALSE: maxsize=None (plain dict, never evicts)
    maxsize,    \* lru_cache(maxsize=...), used when bounded
    limit,      \* the interpreter's recursion limit, in hanoi_count frames
    stack,      \* call stack of wrapper/body frames, innermost last
    last,       \* outcome of the last finished top-level call
    event,      \* the last thing the wrapper did to the cache
    recency,    \* history: present keys ordered by their last touch
    before,     \* history: the cache when the running top-level call began
    calls,      \* history: body invocations of the current top-level call
    p_args,     \* plain functions: the arguments
    p_count,    \* plain functions: hanoi_count's result (-1: not run)
    p_moves,    \* plain functions: hanoi's list (<<>> before the run)
    p_ran,      \* plain functions: hanoi has run
    p_pos,      \* plain functions: number of moves executed
    p_rods,     \* plain functions: the rods, each a stack with the top first
    p_legal     \* plain functions: every executed move obeyed the rules

cvars == <<cache, bounded, maxsize, limit, stack, last, event, recency, before, calls>>
pvars == <<p_args, p_count, p_moves, p_ran, p_pos, p_rods, p_legal>>
vars == <<cache, bounded, maxsize, limit, stack, last, event, recency, before, calls,
          p_args, p_count, p_moves, p_ran, p_pos, p_rods, p_legal>>

\* ------------------------------------------------------- plain functions
\* the biggest disk's own step left out
RECURSIVE hanoi_count_nostep(_, _, _, _)
hanoi_count_nostep(n_disks, start_pole, free_pole, end_pole) ==
    IF n_disks > 0
    THEN hanoi_count_nostep(n_disks - 1, start_pole, end_pole, free_pole)
         + hanoi_count_nostep(n_disks - 1, free_pole, start_pole, end_pole)
    ELSE 0

RECURSIVE hanoi_count(_, _, _, _)
hanoi_count(n_disks, start_pole, free_pole, end_pole) ==
    IF n_disks > 0
    THEN hanoi_count(n_disks - 1, start_pole, end_pole, free_pole)
         + 1
         + hanoi_count(n_disks - 1, free_pole, start_pole, end_pole)
    ELSE 0

\* f"Move disk {n_disks} from rod {start_pole} to rod {end_pole}"
step_text(n_disks, start_pole, end_pole) ==
    <<"Move disk ", n_disks, " from rod ", start_pole, " to rod ", end_pole>>

\* the first recursive call made without exchanging the free and end poles
RECURSIVE hanoi_noswap(_, _, _, _)
hanoi_noswap(n_disks, start_pole, free_pole, end_pole) ==
    IF n_disks > 0
    THEN hanoi_noswap(n_disks - 1, start_pole, free_pole, end_pole)
         \o <<step_text(n_disks, start_pole, end_pole)>>
         \o hanoi_noswap(n_disks - 1, free_pole, start_pole, end_pole)
    ELSE <<>>

RECURSIVE hanoi(_, _, _, _)
hanoi(n_disks, start_pole, free_pole, end_pole) ==
    IF n_disks > 0
    THEN hanoi(n_disks - 1, start_pole, end_pole, free_pole)
         \o <<step_text(n_disks, start_pole, end_pole)>>
         \o hanoi(n_disks - 1, free_pole, start_pole, end_pole)
    ELSE <<>>

\* ------------------------------------------------------------ the cache
Poles == {"A", "B", "C"}
\* pole arguments of the top-level calls on the cache
InputPoles == {<<"A", "B", "C">>, <<"A", "C", "B">>, <<"A", "B", "D">>}

\* a key that leaves the last argument out
make_key_short(args) == <<args[1], args[2], args[3]>>

\* functools' key of a call with positional arguments only: the tuple itself
make_key(args) == args

Keys(c) == {c[i].key : i \in 1..Len(c)}
InCache(c, k) == \E i \in 1..Len(c) : c[i].key = k
IndexOf(c, k) == CHOOSE i \in 1..Len(c) : c[i].key = k
RemoveAt(c, i) == SubSeq(c, 1, i - 1) \o SubSeq(c, i + 1, Len(c))

\* a hit that leaves the link where it is
Promote_still(c, k) == c

\* a hit of the bounded cache moves the link to the most recently used end
Promote(c, k) ==
    LET i == IndexOf(c, k) IN Append(RemoveAt(c, i), c[i])

\* an insertion that never evicts
Insert_grow(c, entry) ==
    IF InCache(c, entry.key) THEN c ELSE Append(c, entry)

\* an insertion into a full cache that reuses the oldest link and rekeys it
\* without replacing its result
Insert_stale(c, entry) ==
    IF InCache(c, entry.key) THEN c
    ELSE IF ~bounded THEN Append(c, entry)
    ELSE IF Len(c) < maxsize THEN Append(c, entry)
    ELSE Append(Tail(c), [entry EXCEPT !.val = Head(c).val])

\* an insertion that stores nothing
Insert_drop(c, entry) == c

\* the wrapper after the body returned: keep, append, or replace the oldest
Insert(c, entry) ==
    IF InCache(c, entry.key) THEN c
    ELSE IF ~bounded THEN Append(c, entry)
    ELSE IF Len(c) < maxsize THEN Append(c, entry)
    ELSE Append(Tail(c), entry)

\* history: k was just touched, and only the keys of c are still present
Touch(r, k, c) ==
    LET rest == SelectSeq(r, LAMBDA x : x # k /\ x \in Keys(c))
    IN  IF k \in Keys(c) THEN Append(rest, k) ELSE rest

NoKey == <<>>
Frame(args, pc, steps) == [args |-> args, pc |-> pc, steps |-> steps]
Top == stack[Len(stack)]
Below == SubSeq(stack, 1, Len(stack) - 1)
SetTop(f) == [stack EXCEPT ![Len(stack)] = f]

\* a call returned `value`: the top-level call is over, or the calling body
\* adds it to `steps` (and 1 for the biggest disk after the first call)
Return(value, hit) ==
    IF Len(stack) = 1
    THEN /\ stack' = <<>>
         /\ before' = <<>>
         /\ last' = [status |-> "ok", args |-> Top.args, val |-> value, hit |-> hit]
    ELSE LET caller == stack[Len(stack) - 1] IN
         /\ last' = last
         /\ before' = before
         /\ stack' = [Below EXCEPT ![Len(stack) - 1] =
                IF caller.pc = "first"
                THEN Frame(caller.args, "mid", caller.steps + value + 1)
                ELSE Frame(caller.args, "store", caller.steps + value)]

Idle == stack = <<>>

Call(args) ==
    /\ Idle
    /\ stack' = <<Frame(args, "lookup", 0)>>
    /\ calls' = 0
    /\ before' = cache
    /\ UNCHANGED <<cache, bounded, maxsize, limit, last, event, recency>>

\* a lookup that finds the key and runs the body all the same
Hit_recompute ==
    /\ ~Idle /\ Top.pc = "lookup"
    /\ InCache(cache, make_key(Top.args))
    /\ stack' = SetTop(Frame(Top.args, "body", 0))
    /\ event' = [op |-> "miss", args |-> Top.args, src |-> Top.args, victim |-> NoKey]
    /\ calls' = calls + 1
    /\ UNCHANGED <<cache, bounded, maxsize, limit, last, recency, before>>

Hit ==
    /\ ~Idle /\ Top.pc = "lookup"
    /\ InCache(cache, make_key(Top.args))
    /\ LET k == make_key(Top.args)
           e == cache[IndexOf(cache, k)] IN
       /\ cache' = IF bounded THEN Promote(cache, k) ELSE cache
       /\ event' = [op |-> "hit", args |-> Top.args, src |-> e.src, victim |-> NoKey]
       /\ recency' = Touch(recency, k, cache')
       /\ Return(e.val, TRUE)
    /\ UNCHANGED <<bounded, maxsize, limit, calls>>

Miss ==
    /\ ~Idle /\ Top.pc = "lookup"
    /\ ~InCache(cache, make_key(Top.args))
    /\ stack' = SetTop(Frame(Top.args, "body", 0))
    /\ event' = [op |-> "miss", args |-> Top.args, src |-> Top.args, victim |-> NoKey]
    /\ calls' = calls + 1
    /\ UNCHANGED <<cache, bounded, maxsize, limit, last, recency, before>>

BodyBase ==
    /\ ~Idle /\ Top.pc = "body"
    /\ ~(Top.args[1] > 0)
    /\ stack' = SetTop(Frame(Top.args, "store", 0))
    /\ UNCHANGED <<cache, bounded, maxsize, limit, last, event, recency, before, calls>>

BodyFirst ==
    /\ ~Idle /\ Top.pc = "body"
    /\ Top.args[1] > 0
    /\ Len(stack) < limit
    /\ LET a == Top.args IN
       stack' = Append(SetTop(Frame(a, "first", 0)),
                       Frame(<<a[1] - 1, a[2], a[4], a[3]>>, "lookup", 0))
    /\ UNCHANGED <<cache, bounded, maxsize, limit, last, event, recency, before, calls>>

BodySecond ==
    /\ ~Idle /\ Top.pc = "mid"
    /\ Len(stack) < limit
    /\ LET a == Top.args IN
       stack' = Append(SetTop(Frame(a, "second", Top.steps)),
                       Frame(<<a[1] - 1, a[3], a[2], a[4]>>, "lookup", 0))
    /\ UNCHANGED <<cache, bounded, maxsize, limit, last, event, recency, before, calls>>

\* a failure that is memoized like a result
Raise_memo ==
    /\ ~Idle /\ Top.pc \in {"body", "mid"}
    /\ Top.args[1] > 0
    /\ ~(Len(stack) < limit)
    /\ stack' = <<>>
    /\ before' = <<>>
    /\ last' = [status |-> "err", args |-> stack[1].args, val |-> 0, hit |-> FALSE]
    /\ event' = [op |-> "raise", args |-> stack[1].args, src |-> stack[1].args,
                 victim |-> NoKey]
    /\ cache' = Insert(cache, [key |-> make_key(stack[1].args), src |-> stack[1].args,
                               val |-> 0])
    /\ recency' = Touch(recency, make_key(stack[1].args), cache')
    /\ UNCHANGED <<bounded, maxsize, limit, calls>>

\* a recursive call beyond the recursion limit raises; no frame handles it
Raise ==
    /\ ~Idle /\ Top.pc \in {"body", "mid"}
    /\ Top.args[1] > 0
    /\ ~(Len(stack) < limit)
    /\ stack' = <<>>
    /\ before' = <<>>
    /\ last' = [status |-> "err", args |-> stack[1].args, val |-> 0, hit |-> FALSE]
    /\ event' = [op |-> "raise", args |-> stack[1].args, src |-> stack[1].args,
                 victim |-> NoKey]
    /\ UNCHANGED <<cache, bounded, maxsize, limit, recency, calls>>

Store ==
    /\ ~Idle /\ Top.pc = "store"
    /\ LET k == make_key(Top.args)
           entry == [key |-> k, src |-> Top.args, val |-> Top.steps] IN
       /\ cache' = Insert(cache, entry)
       /\ event' = [op |-> "store", args |-> Top.args, src |-> Top.args,
                    victim |-> IF Keys(cache) \subseteq Keys(cache') THEN NoKey
                               ELSE (CHOOSE x \in Keys(cache) \ Keys(cache') : TRUE)]
       /\ recency' = Touch(recency, k, cache')
       /\ Return(Top.steps, FALSE)
    /\ UNCHANGED <<bounded, maxsize, limit, calls>>

\* a clear that drops the oldest entry only
Clear_oldest ==
    /\ Idle
    /\ cache # <<>>
    /\ cache' = Tail(cache)
    /\ recency' = Touch(recency, NoKey, cache')
    /\ event' = [op |-> "clear", args |-> NoKey, src |-> NoKey, victim |-> NoKey]
    /\ UNCHANGED <<bounded, maxsize, limit, stack, last, before, calls>>

\* clear(): empties all entries and the recency state
Clear ==
    /\ Idle
    /\ cache # <<>>
    /\ cache' = <<>>
    /\ recency' = <<>>
    /\ event' = [op |-> "clear", args |-> NoKey, src |-> NoKey, victim |-> NoKey]
    /\ UNCHANGED <<bounded, maxsize, limit, stack, last, before, calls>>

NoLast == [status |-> "none", args |-> NoKey, val |-> 0, hit |-> FALSE]
NoEvent == [op |-> "none", args |-> NoKey, src |-> NoKey, victim |-> NoKey]

PlainIdle ==
    /\ p_args = <<0, "A", "B", "C">> /\ p_count = -1 /\ p_moves = <<>>
    /\ p_ran = FALSE /\ p_pos = 0 /\ p_rods = [r \in Poles |-> <<>>] /\ p_legal = TRUE

CacheInit ==
    /\ cache = <<>> /\ stack = <<>> /\ last = NoLast /\ event = NoEvent
    /\ recency = <<>> /\ before = <<>> /\ calls = 0

Init ==
    /\ CacheInit
    /\ bounded = TRUE
    /\ maxsize \in 1..MaxCap
    /\ limit = RecLimit
    /\ PlainIdle

Next ==
    \/ /\ \E n \in 0..MaxN, p \in InputPoles : Call(<<n, p[1], p[2], p[3]>>)
       /\ UNCHANGED pvars
    \/ Hit /\ UNCHANGED pvars
    \/ Miss /\ UNCHANGED pvars
    \/ BodyBase /\ UNCHANGED pvars
    \/ BodyFirst /\ UNCHANGED pvars
    \/ BodySecond /\ UNCHANGED pvars
    \/ Raise /\ UNCHANGED pvars
    \/ Store /\ UNCHANGED pvars
    \/ Clear /\ UNCHANGED pvars

Spec == Init /\ [][Next]_vars

\* ------------------------------------- the unbounded cache, started empty
InitCold ==
    /\ CacheInit
    /\ bounded = FALSE
    /\ maxsize = 0
    /\ limit = ColdLimit
    /\ PlainIdle

NextCold ==
    \/ /\ cache = <<>>
       /\ \E n \in 0..ColdMaxN, p \in InputPoles : Call(<<n, p[1], p[2], p[3]>>)
       /\ UNCHANGED pvars
    \/ Hit /\ UNCHANGED pvars
    \/ Miss /\ UNCHANGED pvars
    \/ BodyBase /\ UNCHANGED pvars
    \/ BodyFirst /\ UNCHANGED pvars
    \/ BodySecond /\ UNCHANGED pvars
    \/ Raise /\ UNCHANGED pvars
    \/ Store /\ UNCHANGED pvars

SpecCold == InitCold /\ [][NextCold]_vars

\* ------------------------------------------ the plain functions, executed
Triples == {<<s, f, e>> : s \in Poles, f \in Poles, e \in Poles}
Distinct(a) == a[2] # a[3] /\ a[2] # a[4] /\ a[3] # a[4]
Tower(n) == [i \in 1..n |-> i]

InitPlain ==
    /\ CacheInit /\ bounded = TRUE /\ maxsize = 1 /\ limit = RecLimit
    /\ p_args \in {<<n, t[1], t[2], t[3]>> : n \in 0..MaxDisks, t \in Triples}
    /\ p_count = -1 /\ p_moves = <<>> /\ p_ran = FALSE /\ p_pos = 0
    /\ p_rods = [r \in Poles |-> <<>>]
    /\ p_legal = TRUE

RunCount ==
    /\ p_count = -1
    /\ p_count' = hanoi_count(p_args[1], p_args[2], p_args[3], p_args[4])
    /\ UNCHANGED <<p_args, p_moves, p_ran, p_pos, p_rods, p_legal>>

\* the puzzle starts with the disks stacked on the start rod, smallest on top
RunHanoi ==
    /\ ~p_ran
    /\ p_ran' = TRUE
    /\ p_moves' = hanoi(p_args[1], p_args[2], p_args[3], p_args[4])
    /\ p_rods' = [r \in Poles |-> IF r = p_args[2] THEN Tower(p_args[1]) ELSE <<>>]
    /\ UNCHANGED <<p_args, p_count, p_pos, p_legal>>

\* the rules: the disk moved is the upper disk of its rod, and it is not put
\* on a smaller disk
Legal(rods, disk, from, to) ==
    /\ rods[from] # <<>>
    /\ Head(rods[from]) = disk
    /\ rods[to] = <<>> \/ Head(rods[to]) > disk

\* carry out the next step of the list as its text says
ExecStep ==
    /\ p_ran
    /\ p_pos < Len(p_moves)
    /\ LET m == p_moves[p_pos + 1]
           disk == m[2]
           from == m[4]
           to == m[6] IN
       /\ p_legal' = (p_legal /\ Legal(p_rods, disk, from, to))
       /\ p_rods' = [p_rods EXCEPT ![from] = SelectSeq(@, LAMBDA d : d # disk),
                                   ![to] = <<disk>> \o @]
    /\ p_pos' = p_pos + 1
    /\ UNCHANGED <<p_args, p_count, p_moves, p_ran>>

NextPlain ==
    \/ RunCount /\ UNCHANGED cvars
    \/ RunHanoi /\ UNCHANGED cvars
    \/ ExecStep /\ UNCHANGED cvars

SpecPlain == InitPlain /\ [][NextPlain]_vars

\* ================================================================ claims
LookupStep == ~Idle /\ Top.pc = "lookup"
StoreStep == ~Idle /\ Top.pc = "store"
RaiseStep == ~Idle /\ stack' = <<>> /\ event'.op = "raise"
Count(args) == hanoi_count(args[1], args[2], args[3], args[4])

\* the value the step hands to the caller of the innermost call
Delivered ==
    IF Len(stack) = 1 THEN last'.val
    ELSE LET caller == stack[Len(stack) - 1] IN
         stack'[Len(stack) - 1].steps - caller.steps
            - (IF caller.pc = "first" THEN 1 ELSE 0)

\* C1 (as claimed): a key is computed once: a key that had its entry when the
\* running top-level call began (its body has run) is looked up later in that
\* call, after other calls on the cache, without invoking the body again.
C1_InvokedOnce ==
    [][(LookupStep /\ InCache(before, make_key(Top.args)))
        => calls' = calls]_vars

\* C1 (amended): a miss returns the value of the body and stores it; a lookup
\* of a key that is still in the cache returns that same value, the value of
\* the plain function, without invoking the body.
C1_HitEqualsMiss ==
    [][/\ (LookupStep /\ InCache(cache, make_key(Top.args)))
            => /\ calls' = calls
               /\ Len(stack') = Len(stack) - 1
               /\ Delivered = cache[IndexOf(cache, make_key(Top.args))].val
               /\ Delivered = Count(Top.args)
       /\ StoreStep
            => /\ Delivered = Top.steps
               /\ Delivered = Count(Top.args)
               /\ InCache(cache', make_key(Top.args))
               /\ cache'[IndexOf(cache', make_key(Top.args))].val = Delivered]_vars

C1_Witness ==
    /\ Idle /\ last.status = "ok" /\ last.hit
    /\ last.args = <<2, "A", "B", "C">> /\ last.val = 3
    /\ event.op = "hit" /\ event.args = last.args

\* C2: a bounded cache never holds more than maxsize entries, in any state,
\* the states inside a body whose recursive calls use the same cache included.
C2_Capacity == bounded => Len(cache) <= maxsize

C2_Witness ==
    /\ bounded /\ Len(cache) = maxsize
    /\ event.op = "store" /\ event.victim # NoKey
    /\ Len(stack) >= 2
    /\ \E i \in 1..Len(cache) : cache[i].src = event.args

\* C3: a step that removes an entry of the bounded cache (other than clear)
\* is the insertion of a new key into a full cache, and removes exactly the
\* entry touched longest ago; with maxsize 2 and k2 touched before k1, the
\* insertion of k3 leaves k1 and k3.
C3_EvictionOrder ==
    [][/\ (bounded /\ Keys(cache) \ Keys(cache') # {} /\ event'.op # "clear")
            => /\ event'.op = "store"
               /\ Len(cache) = maxsize
               /\ ~InCache(cache, make_key(event'.args))
               /\ Keys(cache) \ Keys(cache') = {recency[1]}
               /\ Keys(cache') = (Keys(cache) \ {recency[1]}) \cup {make_key(event'.args)}
       /\ (bounded /\ maxsize = 2 /\ Len(recency) = 2 /\ StoreStep
           /\ ~InCache(cache, make_key(Top.args)))
            => Keys(cache') = {recency[2], make_key(Top.args)}]_vars

C3_Witness ==
    /\ bounded /\ maxsize = 2 /\ Idle
    /\ event.op = "store" /\ event.args = <<0, "A", "B", "D">>
    /\ event.victim = <<0, "A", "C", "B">>
    /\ recency = << <<0, "A", "B", "C">>, <<0, "A", "B", "D">> >>
    /\ Keys(cache) = {<<0, "A", "B", "C">>, <<0, "A", "B", "D">>}

\* C4 (as claimed): when a call fails, the cache (entries and order) is what
\* it was before the call.
C4_StateUnchanged == [][RaiseStep => cache' = before]_vars

\* C4 (amended): the failure reaches the caller and stores nothing: the cache
\* is what it was just before the failing step, no call in progress has an
\* entry, and the next call with the failed key invokes the body again.
C4_FailureNotCached ==
    [][/\ RaiseStep
            => /\ cache' = cache
               /\ last'.status = "err" /\ last'.args = stack[1].args
               /\ \A i \in 1..Len(stack) : ~InCache(cache', make_key(stack[i].args))
       /\ (last.status = "err" /\ Len(stack) = 1 /\ LookupStep /\ Top.args = last.args)
            => /\ calls' = calls + 1
               /\ stack'[1].pc = "body"]_vars

C4_Witness ==
    /\ Idle /\ last.status = "err" /\ event.op = "raise"
    /\ Len(cache) = 2 /\ maxsize = 2
    /\ ~InCache(cache, make_key(last.args))

\* C5: the key is the whole argument tuple: a hit returns the entry computed
\* for exactly the call's arguments, a stored call has an entry of its own,
\* and entries of different tuples are different entries.
C5_KeyComplete ==
    /\ event.op = "hit" => event.src = event.args
    /\ event.op = "store" => \E i \in 1..Len(cache) : cache[i].src = event.args
    /\ \A i, j \in 1..Len(cache) :
          /\ cache[i].key = cache[i].src
          /\ cache[i].src = cache[j].src => i = j

C5_Witness ==
    /\ event.op = "hit" /\ event.args = <<0, "A", "B", "D">>
    /\ \E i, j, k \in 1..Len(cache) :
          /\ cache[i].src = <<0, "A", "B", "C">>
          /\ cache[j].src = <<0, "A", "B", "D">>
          /\ cache[k].src = <<0, "A", "C", "B">>

\* C6: clear leaves the cache with size 0 and no recency state, and the next
\* lookup, of whatever key, is a miss that invokes the body.
currsize == Len(cache)
C6_ClearResets ==
    [][/\ event'.op = "clear" => (currsize' = 0 /\ recency' = <<>>)
       /\ (event.op = "clear" /\ LookupStep)
            => /\ calls' = calls + 1
               /\ stack'[Len(stack)].pc = "body"]_vars

C6_Witness ==
    /\ event.op = "miss" /\ currsize = 0
    /\ last.status = "ok" /\ last.hit
    /\ Len(stack) = 1 /\ Top.pc = "body" /\ Top.args = last.args
    /\ before = <<>>

\* C7: hanoi_count returns 2^n - 1 whatever the poles are; 0 for no disk and
\* 7 for hanoi_count(3, "A", "B", "C").
C7_StepCount ==
    p_count # -1 =>
        /\ p_count = 2^(p_args[1]) - 1
        /\ p_args[1] = 0 => p_count = 0
        /\ p_args = <<3, "A", "B", "C">> => p_count = 7

C7_Witness == p_args = <<3, "A", "B", "C">> /\ p_count = 7

\* C8: with three distinct poles, the list of hanoi has 2^n - 1 steps, each
\* moves the upper disk of a rod and never onto a smaller disk, and at the end
\* all disks are on the end pole.
C8_LegalSolution ==
    Distinct(p_args) =>
        /\ p_legal
        /\ p_ran => Len(p_moves) = 2^(p_args[1]) - 1
        /\ (p_ran /\ p_pos = Len(p_moves))
             => p_rods = [r \in Poles |-> IF r = p_args[4] THEN Tower(p_args[1]) ELSE <<>>]

\* the list the notebook prints for hanoi(3, "A", "B", "C")
Printed3 ==
    << step_text(1, "A", "C"), step_text(2, "A", "B"), step_text(1, "C", "B"),
       step_text(3, "A", "C"), step_text(1, "B", "A"), step_text(2, "B", "C"),
       step_text(1, "A", "C") >>

C8_Witness ==
    /\ p_args = <<3, "A", "B", "C">> /\ p_ran /\ p_moves = Printed3
    /\ p_pos = 7 /\ p_legal /\ p_rods["C"] = <<1, 2, 3>>

\* C9: on the unbounded cache started empty, a call with n disks invokes the
\* body at most 3n + 1 times.
CurN == IF Idle THEN last.args[1] ELSE stack[1].args[1]
C9_LinearWork ==
    (~bounded /\ (~Idle \/ last.status # "none")) => calls <= 3 * CurN + 1

C9_Witness ==
    /\ ~bounded /\ Idle /\ last.status = "ok"
    /\ last.args[1] = 24 /\ last.val = 2^24 - 1
    /\ calls = 72 /\ Len(cache) = 72

\* C10: whatever the bounded cache evicted, a top-level call of the wrapped
\* hanoi_count returns what the plain hanoi_count returns.
C10_Transparent ==
    (bounded /\ last.status = "ok") => last.val = Count(last.args)

C10_Witness ==
    /\ bounded /\ maxsize = 1 /\ Idle
    /\ last.status = "ok" /\ ~last.hit
    /\ last.args[1] = 2 /\ last.val = 3
    /\ event.victim # NoKey

====
